---- MODULE Spec2Model ----
(***************************************************************************)
(* Inventory store with file persistence, in its two variants:             *)
(*   "delimited"  src/Manipulación.py   one line id|nombre|cantidad|precio *)
(*   "json"       src/Manipulación1.py  a JSON object, written to a        *)
(*                                      temporary file and renamed         *)
(* A text is a sequence of one-character strings.  A price is a float with *)
(* one decimal digit, held as its number of tenths (5 is 0.5, 10 is 1.0).  *)
(***************************************************************************)
EXTENDS Integers, Sequences, FiniteSets, TLC

VARIABLES variant, archivo, temp_file, productos, pc, idx, call, ret, resultado,
          guardar, pre, archivo_inicial, nops, nfail, ncrash

vars == <<variant, archivo, temp_file, productos, pc, idx, call, ret, resultado,
          guardar, pre, archivo_inicial, nops, nfail, ncrash>>

\* ---------------------------------------------------------------- bounds
MaxOps == 4
MaxFailures == 2
MaxCrashes == 1

\* ------------------------------------------------------------------ text
DigitChars == <<"0", "1", "2", "3", "4", "5", "6", "7", "8", "9">>

DigitChar(d) == DigitChars[d + 1]

IsDigit(c) == \E d \in 1..10 : DigitChars[d] = c

DigitVal(c) == (CHOOSE d \in 1..10 : DigitChars[d] = c) - 1

IsSpace(c) == c = " "

RECURSIVE lstrip(_)
lstrip(s) ==
    IF s # <<>> /\ IsSpace(Head(s)) THEN lstrip(Tail(s)) ELSE s

RECURSIVE rstrip(_)
rstrip(s) ==
    IF s # <<>> /\ IsSpace(s[Len(s)]) THEN rstrip(SubSeq(s, 1, Len(s) - 1)) ELSE s

\* str.strip(): leading and trailing whitespace removed
strip(s) == rstrip(lstrip(s))

\* str.split(sep): the fields between the separators, always at least one
RECURSIVE split(_, _)
split(s, sep) ==
    IF \A i \in 1..Len(s) : s[i] # sep
    THEN <<s>>
    ELSE LET i == CHOOSE j \in 1..Len(s) :
                      s[j] = sep /\ \A k \in 1..(j - 1) : s[k] # sep
         IN  <<SubSeq(s, 1, i - 1)>> \o split(SubSeq(s, i + 1, Len(s)), sep)

RECURSIVE NatStr(_)
NatStr(n) ==
    IF n < 10 THEN <<DigitChar(n)>>
    ELSE NatStr(n \div 10) \o <<DigitChar(n % 10)>>

\* f"{producto.cantidad}" for an int
IntStr(n) == IF n < 0 THEN <<"-">> \o NatStr(0 - n) ELSE NatStr(n)

\* f"{producto.precio}" for a float of one decimal digit (p tenths)
FloatStr(p) ==
    LET a == IF p < 0 THEN 0 - p ELSE p
    IN  (IF p < 0 THEN <<"-">> ELSE <<>>)
        \o NatStr(a \div 10) \o <<".">> \o <<DigitChar(a % 10)>>

RECURSIVE DigitsVal(_, _)
DigitsVal(s, acc) ==
    IF s = <<>> THEN acc ELSE DigitsVal(Tail(s), 10 * acc + DigitVal(Head(s)))

AllDigits(s) == \A i \in 1..Len(s) : IsDigit(s[i])

Unsigned(s) == IF s # <<>> /\ Head(s) \in {"-", "+"} THEN Tail(s) ELSE s

Signed(s, v) == IF s # <<>> /\ Head(s) = "-" THEN 0 - v ELSE v

\* int(text): ok is FALSE where Python raises ValueError
ParseInt(text) ==
    LET s == strip(text)
        u == Unsigned(s)
    IN  IF u # <<>> /\ AllDigits(u)
        THEN [ok |-> TRUE, val |-> Signed(s, DigitsVal(u, 0))]
        ELSE [ok |-> FALSE, val |-> 0]

\* float(text), in tenths: digits, an optional point, digits; at least one digit.
\* Texts of the model carry at most one fractional digit.
ParseFloat(text) ==
    LET s == strip(text)
        u == Unsigned(s)
        f == split(u, ".")
        ip == f[1]
        fp == IF Len(f) = 2 THEN f[2] ELSE <<>>
    IN  IF Len(f) <= 2 /\ AllDigits(ip) /\ AllDigits(fp) /\ ip \o fp # <<>>
        THEN [ok |-> TRUE,
              val |-> Signed(s, 10 * DigitsVal(ip, 0)
                                + (IF fp = <<>> THEN 0 ELSE DigitVal(fp[1])))]
        ELSE [ok |-> FALSE, val |-> 0]

\* --------------------------------------------------------------- records
Producto(id_producto, nombre, cantidad, precio) ==
    [id |-> id_producto, nombre |-> nombre, cantidad |-> cantidad, precio |-> precio]

\* A dict is the sequence of its items in insertion order, keys distinct.
Keys(d) == {d[i].key : i \in 1..Len(d)}

Get(d, k) == (CHOOSE e \in {d[i] : i \in 1..Len(d)} : e.key = k).val

\* d[k] = v: an existing key keeps its place
DictSet(d, k, v) ==
    IF k \in Keys(d)
    THEN [i \in 1..Len(d) |-> IF d[i].key = k THEN [key |-> k, val |-> v] ELSE d[i]]
    ELSE Append(d, [key |-> k, val |-> v])

\* del d[k]
DictDel(d, k) == SelectSeq(d, LAMBDA e : e.key # k)

\* The mapping a dict stands for, whatever its insertion order
AsMap(d) == [k \in Keys(d) |-> Get(d, k)]

\* ---------------------------------------------------------------- files
\* A file is absent, or holds a body: the lines of a text file (delimited
\* variant), or the items of a JSON object (json variant).  A JSON file may
\* also be "corrupt" (not valid JSON), "partial" (a write that did not
\* finish: not valid JSON either) or "nonobject" (valid JSON, not an object).
Absent == [kind |-> "absent", body |-> <<>>]

Exists(f) == f.kind # "absent"

\* ------------------------------------------------- codec, delimited variant
\* One written line, without its newline
Linea(p) ==
    p.id \o <<"|">> \o p.nombre \o <<"|">> \o IntStr(p.cantidad)
         \o <<"|">> \o FloatStr(p.precio)

\* One line read: ok is FALSE where the unpacking, int() or float() raises
\* ValueError
ParseLinea(linea) ==
    LET f == split(strip(linea), "|")
    IN  IF Len(f) # 4
        THEN [ok |-> FALSE, key |-> <<>>, val |-> Producto(<<>>, <<>>, 0, 0)]
        ELSE LET c == ParseInt(f[3])
                 p == ParseFloat(f[4])
             IN  [ok |-> c.ok /\ p.ok, key |-> f[1],
                  val |-> Producto(f[1], f[2], c.val, p.val)]

RECURSIVE LeerLineas(_, _)
LeerLineas(lineas, d) ==
    IF lineas = <<>> THEN [raised |-> FALSE, productos |-> d]
    ELSE LET r == ParseLinea(Head(lineas))
         IN  IF ~r.ok THEN [raised |-> TRUE, productos |-> d]
             ELSE LeerLineas(Tail(lineas), DictSet(d, r.key, r.val))

\* cargar_inventario: PermissionError is caught, ValueError is not
cargar_inventario_txt(f, readable) ==
    IF ~Exists(f) THEN [raised |-> FALSE, productos |-> <<>>]
    ELSE IF ~readable THEN [raised |-> FALSE, productos |-> <<>>]
    ELSE LeerLineas(f.body, <<>>)

\* ------------------------------------------------------ codec, json variant
to_dict(p) ==
    [id |-> p.id, nombre |-> p.nombre, cantidad |-> p.cantidad, precio |-> p.precio]

HasFields(data) == {"id", "nombre", "cantidad", "precio"} \subseteq DOMAIN data

from_dict(data) == Producto(data.id, data.nombre, data.cantidad, data.precio)

\* json.dump({k: v.to_dict() for k, v in self.productos.items()})
JsonDump(d) == [i \in 1..Len(d) |-> [key |-> d[i].key, val |-> to_dict(d[i].val)]]

\* {k: Producto.from_dict(v) for k, v in data.items()}
JsonLoad(body) == [i \in 1..Len(body) |-> [key |-> body[i].key, val |-> from_dict(body[i].val)]]

\* What the PermissionError handler of cargar_inventario does: print, raise
LoadPermissionError == [raised |-> TRUE, productos |-> <<>>]

\* Mutant: the JSONDecodeError handler raises again
LoadJSONDecodeError_reraise == [raised |-> TRUE, productos |-> <<>>]

\* What the JSONDecodeError handler does: print; productos stays {}
LoadJSONDecodeError == [raised |-> FALSE, productos |-> <<>>]

\* cargar_inventario: PermissionError is re-raised; JSONDecodeError and any
\* other exception (KeyError of from_dict, AttributeError of data.items())
\* leave an empty inventory
cargar_inventario_json(f, readable) ==
    IF ~Exists(f) THEN [raised |-> FALSE, productos |-> <<>>]
    ELSE IF ~readable THEN LoadPermissionError
    ELSE IF f.kind \in {"corrupt", "partial"} THEN LoadJSONDecodeError
    ELSE IF f.kind = "nonobject" THEN [raised |-> FALSE, productos |-> <<>>]
    ELSE IF \E i \in 1..Len(f.body) : ~HasFields(f.body[i].val)
         THEN [raised |-> FALSE, productos |-> <<>>]
    ELSE [raised |-> FALSE, productos |-> JsonLoad(f.body)]

cargar_inventario(v, f, readable) ==
    IF v = "delimited" THEN cargar_inventario_txt(f, readable)
    ELSE cargar_inventario_json(f, readable)

\* ---------------------------------------------------------------- inputs
IdInputs == {<<"a">>, <<"b">>}

\* The products the driver hands to agregar_producto
AgregarInputs ==
    {Producto(<<"a">>, <<"A", "b">>, 12, 5),
     Producto(<<"a">>, <<"a", "|">>, 0, 20),
     Producto(<<"b">>, <<"a", "|">>, 12, 5)}

\* An optional argument is <<>> (None) or <<v>>
CantidadInputs == {<<>>, <<0>>}

PrecioInputs == {<<>>, <<15>>}

\* The backing file the program may find when it starts
InitialFiles(v) ==
    IF v = "delimited"
    THEN {Absent,
          [kind |-> "text", body |-> <<>>],
          [kind |-> "text", body |-> <<Linea(Producto(<<"a">>, <<"A", "b">>, 3, 25))>>],
          [kind |-> "text", body |-> <<<<"a", "|", "b">> >>],
          [kind |-> "text", body |-> <<<<"a", "|", "b", "|", "x", "|", "1">> >>],
          [kind |-> "text", body |-> << <<"b", "|", "b", "|", "2", "|", "1", ".", "5">>, <<>> >>]}
    ELSE {Absent,
          [kind |-> "object", body |-> <<>>],
          [kind |-> "object",
           body |-> JsonDump(<<[key |-> <<"a">>, val |-> Producto(<<"a">>, <<"A", "b">>, 3, 25)]>>)],
          [kind |-> "object", body |-> <<[key |-> <<"a">>, val |-> [id |-> <<"a">>]]>>],
          [kind |-> "object",
           body |-> JsonDump(<<[key |-> <<"a">>, val |-> Producto(<<"b">>, <<"A", "b">>, 3, 25)]>>)],
          [kind |-> "corrupt", body |-> <<>>],
          [kind |-> "nonobject", body |-> <<>>]}

\* ----------------------------------------------------------------- state
NoCall == [op |-> "none", id |-> <<>>, args |-> <<>>, at |-> "start"]

Snapshot ==
    [productos |-> productos, archivo |-> archivo, temp_file |-> temp_file,
     nfail |-> nfail]

Init ==
    /\ variant \in {"delimited", "json"}
    /\ archivo \in InitialFiles(variant)
    /\ archivo_inicial = archivo
    /\ temp_file = Absent
    /\ productos = <<>>
    /\ pc = "start"
    /\ idx = 0
    /\ call = NoCall
    /\ ret = "none"
    /\ resultado = <<>>
    /\ guardar = "none"
    /\ pre = [productos |-> <<>>, archivo |-> archivo, temp_file |-> Absent,
              nfail |-> 0]
    /\ nops = 0
    /\ nfail = 0
    /\ ncrash = 0

\* The first step of guardar_inventario
SaveStart == IF variant = "delimited" THEN "txt_open" ELSE "json_open"

SaveSteps == {"txt_open", "txt_write", "json_open", "json_dump", "json_remove",
              "json_rename", "json_except"}

\* Inventario.__init__: productos = {}, then cargar_inventario.  The file may
\* be unreadable (open raises PermissionError).
Inventario_init ==
    /\ pc \in {"start", "exited", "crashed"}
    /\ nops < MaxOps
    /\ \E readable \in BOOLEAN :
         /\ (~readable) => (Exists(archivo) /\ nfail < MaxFailures)
         /\ LET r == cargar_inventario(variant, archivo, readable)
            IN  /\ productos' = IF r.raised THEN <<>> ELSE r.productos
                /\ pc' = IF r.raised THEN "raised" ELSE "idle"
                /\ ret' = IF r.raised THEN "raise" ELSE "none"
         /\ nfail' = IF readable THEN nfail ELSE nfail + 1
         /\ call' = [op |-> "init", id |-> <<>>,
                     args |-> [readable |-> readable], at |-> pc]
    /\ nops' = nops + 1
    /\ guardar' = "none"
    /\ resultado' = <<>>
    /\ UNCHANGED <<variant, archivo, temp_file, idx, pre, archivo_inicial, ncrash>>

\* ------------------------------------------------------- store operations
\* Mutant: the duplicate check is missing
agregar_existe_never(d, id_producto) == FALSE

\* if producto.id in self.productos
agregar_existe(d, id_producto) == id_producto \in Keys(d)

\* Mutant: the membership check is missing
eliminar_existe_always(d, id_producto) == TRUE

\* if id_producto in self.productos
eliminar_existe(d, id_producto) == id_producto \in Keys(d)

\* if id_producto not in self.productos: return False
actualizar_existe(d, id_producto) == id_producto \in Keys(d)

\* Mutant: an omitted precio resets the price
Actualizar_reset_precio(p, cantidad, precio) ==
    [p EXCEPT !.cantidad = IF cantidad # <<>> THEN cantidad[1] ELSE @,
              !.precio = IF precio # <<>> THEN precio[1] ELSE 0]

\* The two assignments of actualizar_producto, each under "is not None"
Actualizar(p, cantidad, precio) ==
    [p EXCEPT !.cantidad = IF cantidad # <<>> THEN cantidad[1] ELSE @,
              !.precio = IF precio # <<>> THEN precio[1] ELSE @]

\* self.productos.get(id_producto): <<>> is None
buscar_por_id(d, id_producto) ==
    IF id_producto \in Keys(d) THEN <<Get(d, id_producto)>> ELSE <<>>

\* str.lower() of one character
lower_char(c) == IF c = "A" THEN "a" ELSE IF c = "B" THEN "b" ELSE c

\* Mutant: the search is case-sensitive
lower_identity(s) == s

\* str.lower()
lower(s) == [i \in 1..Len(s) |-> lower_char(s[i])]

\* sub in s
Contains(s, sub) ==
    \E i \in 0..(Len(s) - Len(sub)) : SubSeq(s, i + 1, i + Len(sub)) = sub

\* [p for p in self.productos.values() if nombre_buscado in p.nombre.lower()],
\* nombre_buscado lowered first
buscar_por_nombre(d, nombre_buscado) ==
    LET valores == [i \in 1..Len(d) |-> d[i].val]
    IN  SelectSeq(valores, LAMBDA p : Contains(lower(p.nombre), lower(nombre_buscado)))

\* Mutant: the store operation lets the exception through
OnSaveError_raise == "raise"

\* What a store operation of the json variant returns when guardar_inventario
\* raised: "except Exception" prints and returns False
OnSaveError == "False"

agregar_producto(producto) ==
    /\ pc = "idle"
    /\ nops < MaxOps
    /\ call' = [op |-> "agregar", id |-> producto.id, args |-> producto, at |-> "idle"]
    /\ pre' = Snapshot
    /\ nops' = nops + 1
    /\ guardar' = "none"
    /\ IF agregar_existe(productos, producto.id)
       THEN /\ ret' = "False"
            /\ UNCHANGED <<productos, pc>>
       ELSE /\ productos' = DictSet(productos, producto.id, producto)
            /\ pc' = SaveStart
            /\ ret' = "none"
    /\ resultado' = <<>>
    /\ UNCHANGED <<variant, archivo, temp_file, idx, archivo_inicial, nfail, ncrash>>

eliminar_producto(id_producto) ==
    /\ pc = "idle"
    /\ nops < MaxOps
    /\ call' = [op |-> "eliminar", id |-> id_producto, args |-> <<>>, at |-> "idle"]
    /\ pre' = Snapshot
    /\ nops' = nops + 1
    /\ guardar' = "none"
    /\ IF eliminar_existe(productos, id_producto)
       THEN /\ productos' = DictDel(productos, id_producto)
            /\ pc' = SaveStart
            /\ ret' = "none"
       ELSE /\ ret' = "False"
            /\ UNCHANGED <<productos, pc>>
    /\ resultado' = <<>>
    /\ UNCHANGED <<variant, archivo, temp_file, idx, archivo_inicial, nfail, ncrash>>

actualizar_producto(id_producto, cantidad, precio) ==
    /\ pc = "idle"
    /\ nops < MaxOps
    /\ call' = [op |-> "actualizar", id |-> id_producto,
                args |-> [cantidad |-> cantidad, precio |-> precio], at |-> "idle"]
    /\ pre' = Snapshot
    /\ nops' = nops + 1
    /\ guardar' = "none"
    /\ IF ~actualizar_existe(productos, id_producto)
       THEN /\ ret' = "False"
            /\ UNCHANGED <<productos, pc>>
       ELSE /\ productos' = DictSet(productos, id_producto,
                                    Actualizar(Get(productos, id_producto), cantidad, precio))
            /\ pc' = SaveStart
            /\ ret' = "none"
    /\ resultado' = <<>>
    /\ UNCHANGED <<variant, archivo, temp_file, idx, archivo_inicial, nfail, ncrash>>

\* ---------------------------------------- guardar_inventario, delimited
\* Mutant: the file is opened without truncating it
guardar_txt_open_append ==
    /\ pc = "txt_open"
    /\ archivo' = [kind |-> "text", body |-> archivo.body]
    /\ idx' = 1
    /\ pc' = "txt_write"
    /\ UNCHANGED <<resultado, variant, temp_file, productos, call, ret, guardar, pre,
                   archivo_inicial, nops, nfail, ncrash>>

\* open(self.archivo, 'w'): the file is truncated
guardar_txt_open ==
    /\ pc = "txt_open"
    /\ archivo' = [kind |-> "text", body |-> <<>>]
    /\ idx' = 1
    /\ pc' = "txt_write"
    /\ UNCHANGED <<resultado, variant, temp_file, productos, call, ret, guardar, pre,
                   archivo_inicial, nops, nfail, ncrash>>

\* One file.write of the loop; after the last one the file is closed,
\* guardar_inventario returns and the store operation returns True
guardar_txt_write ==
    /\ pc = "txt_write"
    /\ IF idx <= Len(productos)
       THEN /\ archivo' = [archivo EXCEPT !.body = Append(@, Linea(productos[idx].val))]
            /\ idx' = idx + 1
            /\ UNCHANGED <<pc, ret, guardar>>
       ELSE /\ pc' = "idle"
            /\ ret' = "True"
            /\ guardar' = "returned"
            /\ idx' = 0
            /\ UNCHANGED archivo
    /\ UNCHANGED <<resultado, variant, temp_file, productos, call, pre,
                   archivo_inicial, nops, nfail, ncrash>>

\* Mutant: the exception is not caught and leaves the store operation
guardar_txt_error_raise ==
    /\ pc = "txt_open" \/ (pc = "txt_write" /\ idx <= Len(productos))
    /\ nfail < MaxFailures
    /\ nfail' = nfail + 1
    /\ guardar' = "raised"
    /\ ret' = "raise"
    /\ pc' = "idle"
    /\ idx' = 0
    /\ call' = [call EXCEPT !.at = pc]
    /\ UNCHANGED <<resultado, variant, archivo, temp_file, productos, pre,
                   archivo_inicial, nops, ncrash>>

\* open or write raises PermissionError or IOError: guardar_inventario prints
\* and returns, and the store operation returns True
guardar_txt_error ==
    /\ pc = "txt_open" \/ (pc = "txt_write" /\ idx <= Len(productos))
    /\ nfail < MaxFailures
    /\ nfail' = nfail + 1
    /\ guardar' = "swallowed"
    /\ ret' = "True"
    /\ pc' = "idle"
    /\ idx' = 0
    /\ call' = [call EXCEPT !.at = pc]
    /\ UNCHANGED <<resultado, variant, archivo, temp_file, productos, pre,
                   archivo_inicial, nops, ncrash>>

\* --------------------------------------------- guardar_inventario, json
\* open(temp_file, 'w'): the temporary file is created empty
guardar_json_open ==
    /\ pc = "json_open"
    /\ temp_file' = [kind |-> "partial", body |-> <<>>]
    /\ pc' = "json_dump"
    /\ UNCHANGED <<resultado, variant, archivo, productos, idx, call, ret, guardar, pre,
                   archivo_inicial, nops, nfail, ncrash>>

\* json.dump(...), and the file is closed
guardar_json_dump ==
    /\ pc = "json_dump"
    /\ temp_file' = [kind |-> "object", body |-> JsonDump(productos)]
    /\ pc' = "json_remove"
    /\ UNCHANGED <<resultado, variant, archivo, productos, idx, call, ret, guardar, pre,
                   archivo_inicial, nops, nfail, ncrash>>

\* if os.path.exists(self.archivo): os.remove(self.archivo)
guardar_json_remove ==
    /\ pc = "json_remove"
    /\ archivo' = IF Exists(archivo) THEN Absent ELSE archivo
    /\ pc' = "json_rename"
    /\ UNCHANGED <<resultado, variant, temp_file, productos, idx, call, ret, guardar, pre,
                   archivo_inicial, nops, nfail, ncrash>>

\* os.rename(temp_file, self.archivo); guardar_inventario returns and the
\* store operation returns True
guardar_json_rename ==
    /\ pc = "json_rename"
    /\ archivo' = temp_file
    /\ temp_file' = Absent
    /\ pc' = "idle"
    /\ ret' = "True"
    /\ guardar' = "returned"
    /\ UNCHANGED <<resultado, variant, productos, idx, call, pre,
                   archivo_inicial, nops, nfail, ncrash>>

\* Mutant: the handler leaves the temporary file behind
CleanupTemp_skip(f) == f

\* if os.path.exists(temp_file): os.remove(temp_file)
CleanupTemp(f) == Absent

\* A step of the try block raises PermissionError or IOError; call.at keeps
\* the step
guardar_json_error ==
    /\ pc \in {"json_open", "json_dump", "json_rename"}
         \/ (pc = "json_remove" /\ Exists(archivo))
    /\ nfail < MaxFailures
    /\ nfail' = nfail + 1
    /\ pc' = "json_except"
    /\ call' = [call EXCEPT !.at = pc]
    /\ UNCHANGED <<resultado, variant, archivo, temp_file, productos, idx, ret, guardar,
                   pre, archivo_inicial, nops, ncrash>>

\* Mutant: the store operation undoes its change when the save fails
guardar_json_except_rollback ==
    /\ pc = "json_except"
    /\ temp_file' = CleanupTemp(temp_file)
    /\ guardar' = "raised"
    /\ ret' = OnSaveError
    /\ pc' = "idle"
    /\ productos' = pre.productos
    /\ UNCHANGED <<resultado, variant, archivo, idx, call, pre,
                   archivo_inicial, nops, nfail, ncrash>>

\* The handler: the temporary file is removed if it exists, the exception is
\* raised again, and the store operation catches it
guardar_json_except ==
    /\ pc = "json_except"
    /\ temp_file' = CleanupTemp(temp_file)
    /\ guardar' = "raised"
    /\ ret' = OnSaveError
    /\ pc' = "idle"
    /\ UNCHANGED <<resultado, variant, archivo, productos, idx, call, pre,
                   archivo_inicial, nops, nfail, ncrash>>

\* The handler's own os.remove(temp_file) raises: that exception leaves
\* guardar_inventario instead, the temporary file stays
guardar_json_except_error ==
    /\ pc = "json_except"
    /\ Exists(temp_file)
    /\ nfail < MaxFailures
    /\ nfail' = nfail + 1
    /\ guardar' = "raised"
    /\ ret' = OnSaveError
    /\ pc' = "idle"
    /\ UNCHANGED <<resultado, variant, archivo, temp_file, productos, idx, call, pre,
                   archivo_inicial, nops, ncrash>>

\* ---------------------------------------------------------------- search
NombreBuscadoInputs == {<<"a", "B">>, <<"|">>}

\* Option 5 of the menu: inventario.buscar_por_nombre(nombre)
buscar_nombre(nombre_buscado) ==
    /\ pc = "idle"
    /\ nops < MaxOps
    /\ call' = [op |-> "buscar_nombre", id |-> <<>>, args |-> nombre_buscado, at |-> "idle"]
    /\ pre' = Snapshot
    /\ nops' = nops + 1
    /\ guardar' = "none"
    /\ ret' = "none"
    /\ resultado' = buscar_por_nombre(productos, nombre_buscado)
    /\ UNCHANGED <<variant, archivo, temp_file, productos, pc, idx,
                   archivo_inicial, nfail, ncrash>>

\* ------------------------------------------------------------ environment
\* The process is killed in the middle of guardar_inventario
Crash ==
    /\ pc \in SaveSteps
    /\ ncrash < MaxCrashes
    /\ ncrash' = ncrash + 1
    /\ call' = [call EXCEPT !.at = pc]
    /\ pc' = "crashed"
    /\ ret' = "killed"
    /\ UNCHANGED <<resultado, variant, archivo, temp_file, productos, idx, guardar, pre,
                   archivo_inicial, nops, nfail>>

\* Option 7 of the menu: the program ends
Salir ==
    /\ pc = "idle"
    /\ nops < MaxOps
    /\ pc' = "exited"
    /\ call' = [op |-> "salir", id |-> <<>>, args |-> <<>>, at |-> "idle"]
    /\ pre' = Snapshot
    /\ ret' = "none"
    /\ guardar' = "none"
    /\ resultado' = <<>>
    /\ UNCHANGED <<variant, archivo, temp_file, productos, idx,
                   archivo_inicial, nops, nfail, ncrash>>

Next ==
    \/ Inventario_init
    \/ \E producto \in AgregarInputs : agregar_producto(producto)
    \/ \E id_producto \in IdInputs : eliminar_producto(id_producto)
    \/ \E id_producto \in IdInputs, cantidad \in CantidadInputs, precio \in PrecioInputs :
         actualizar_producto(id_producto, cantidad, precio)
    \/ \E nombre_buscado \in NombreBuscadoInputs : buscar_nombre(nombre_buscado)
    \/ guardar_txt_open
    \/ guardar_txt_write
    \/ guardar_txt_error
    \/ guardar_json_open
    \/ guardar_json_dump
    \/ guardar_json_remove
    \/ guardar_json_rename
    \/ guardar_json_error
    \/ guardar_json_except
    \/ guardar_json_except_error
    \/ Crash
    \/ Salir

Spec == Init /\ [][Next]_vars

\* ================================================================ claims
Mutators == {"agregar", "eliminar", "actualizar"}

\* What a guardar_inventario that runs to its end leaves in the backing file
Serialize(v, d) ==
    IF v = "delimited"
    THEN [kind |-> "text", body |-> [i \in 1..Len(d) |-> Linea(d[i].val)]]
    ELSE [kind |-> "object", body |-> JsonDump(d)]

\* The backing file, read back by a fresh cargar_inventario
Decoded == cargar_inventario(variant, archivo, TRUE)

\* C1 (as stated; refuted): in both variants, whenever add, remove or update
\* returns true, the backing file at that moment decodes to exactly the
\* in-memory mapping, also when the save can fail.
C1_TrueMeansPersisted ==
    (pc = "idle" /\ call.op \in Mutators /\ ret = "True")
        => (~Decoded.raised /\ AsMap(Decoded.productos) = AsMap(productos))

\* C2 (as stated; refuted): in the json variant, a process killed after the
\* temporary file was written and before the rename completed leaves the
\* destination file in its pre-save state.
C2_CrashKeepsDestination ==
    (variant = "json" /\ pc = "crashed" /\ call.at \in {"json_remove", "json_rename"})
        => archivo = pre.archivo

C4_DuplicateAddRejected ==
    (call.op = "agregar" /\ call.id \in Keys(pre.productos))
        => /\ pc = "idle"
           /\ ret = "False"
           /\ productos = pre.productos
           /\ archivo = pre.archivo
           /\ temp_file = pre.temp_file

\* C4 witness: a duplicate add whose Record differs from the stored one
C4_Witness ==
    /\ call.op = "agregar"
    /\ call.id \in Keys(pre.productos)
    /\ call.args # Get(pre.productos, call.id)
    /\ Len(productos) = 2
    /\ ret = "False"

\* C5: in both variants, update on an existing id sets the supplied fields of
\* that Record and nothing else: an omitted quantity or price keeps its value,
\* id and name are unchanged, every other Record is unchanged.
C5_UpdateChangesOnlySupplied ==
    (call.op = "actualizar" /\ call.id \in Keys(pre.productos))
        => /\ Keys(productos) = Keys(pre.productos)
           /\ LET old == Get(pre.productos, call.id)
                  new == Get(productos, call.id)
              IN  /\ new.id = old.id
                  /\ new.nombre = old.nombre
                  /\ new.cantidad = IF call.args.cantidad = <<>> THEN old.cantidad
                                    ELSE call.args.cantidad[1]
                  /\ new.precio = IF call.args.precio = <<>> THEN old.precio
                                  ELSE call.args.precio[1]
           /\ \A k \in Keys(productos) \ {call.id} :
                  Get(productos, k) = Get(pre.productos, k)

\* C5 witness: quantity supplied, price omitted, another Record in the store
C5_Witness ==
    /\ call.op = "actualizar"
    /\ call.id \in Keys(pre.productos)
    /\ call.args.cantidad = <<0>>
    /\ call.args.precio = <<>>
    /\ Get(pre.productos, call.id).cantidad # 0
    /\ Get(productos, call.id).precio # 0
    /\ Len(productos) = 2
    /\ pc = "idle"
    /\ ret = "True"

\* C6: in both variants, update and remove with an id that is not in the store
\* return False, leave the in-memory mapping unchanged and write nothing: the
\* backing file and the temporary file are as before the call.
C6_MissingIdRejected ==
    (call.op \in {"eliminar", "actualizar"} /\ call.id \notin Keys(pre.productos))
        => /\ pc = "idle"
           /\ ret = "False"
           /\ productos = pre.productos
           /\ archivo = pre.archivo
           /\ temp_file = pre.temp_file

\* C6 witness: an update with both fields supplied, of an id the non-empty,
\* persisted store does not hold
C6_Witness ==
    /\ call.op = "actualizar"
    /\ call.id \notin Keys(pre.productos)
    /\ call.args.cantidad # <<>>
    /\ call.args.precio # <<>>
    /\ productos # <<>>
    /\ Exists(archivo)
    /\ ret = "False"

\* C7 (as stated; refuted): in both variants, remove of an id in the store
\* returns True, after which buscar_por_id finds nothing, every other Record is
\* unchanged and the backing file holds the full remaining mapping.
C7_RemovePersists ==
    (pc = "idle" /\ call.op = "eliminar" /\ call.id \in Keys(pre.productos))
        => /\ ret = "True"
           /\ buscar_por_id(productos, call.id) = <<>>
           /\ Keys(productos) = Keys(pre.productos) \ {call.id}
           /\ \A k \in Keys(productos) : Get(productos, k) = Get(pre.productos, k)
           /\ archivo = Serialize(variant, productos)

\* C8 (as stated; refuted): starting without a backing file, after any calls
\* with no save failure and no crash, a fresh store on the same path holds the
\* mapping the original store held in memory.
C8_ReloadEqualsMemory ==
    (call.op = "init" /\ call.at = "exited" /\ ~Exists(archivo_inicial)
       /\ nfail = 0 /\ ncrash = 0)
        => (pc = "idle" /\ AsMap(productos) = AsMap(pre.productos))

\* C9: in the json variant, constructing a store on a readable backing file
\* that is not valid JSON does not raise and yields an empty store.
C9_CorruptJsonStartsEmpty ==
    (variant = "json" /\ call.op = "init" /\ call.args.readable
       /\ archivo.kind \in {"corrupt", "partial"})
        => (pc = "idle" /\ ret # "raise" /\ productos = <<>>)

\* C9 witness: a store constructed on a corrupt file
C9_Witness ==
    /\ variant = "json"
    /\ call.op = "init"
    /\ call.args.readable
    /\ archivo.kind = "corrupt"
    /\ pc = "idle"

\* C10 (as stated; refuted): in both variants, constructing a store never
\* raises, whatever the state of the backing file.
C10_ConstructNeverRaises ==
    call.op = "init" => (pc # "raised" /\ ret # "raise")

\* C11 (as stated; refuted): for both codecs, loading the file that a save
\* of the mapping produced yields the mapping, field for field.
C11_RoundTrip ==
    (pc = "idle" /\ call.op \in Mutators /\ guardar = "returned")
        => (~Decoded.raised /\ AsMap(Decoded.productos) = AsMap(productos))

\* The backing file the program started on loads without error
InitialLoads == ~cargar_inventario(variant, archivo_inicial, TRUE).raised

\* C12 (as stated; refuted): in a store constructed from a backing file that
\* loads without error, after any calls, no two Records have the same id and
\* each Record is stored under the key equal to its id.
C12_IdsUniqueAndKeyed ==
    (pc = "idle" /\ InitialLoads)
        => /\ \A i \in 1..Len(productos) : productos[i].key = productos[i].val.id
           /\ \A i, j \in 1..Len(productos) :
                  productos[i].val.id = productos[j].val.id => i = j

\* Two characters that differ at most in case
EqIgnoreCase(c, d) == c = d \/ {c, d} \in {{"a", "A"}, {"b", "B"}}

\* sub occurs in s, case ignored
ContainsIgnoreCase(s, sub) ==
    \E i \in 0..(Len(s) - Len(sub)) :
        \A j \in 1..Len(sub) : EqIgnoreCase(s[i + j], sub[j])

\* C13: buscar_por_nombre returns exactly the Records whose name contains the
\* substring, case ignored, each once, and changes neither the in-memory
\* mapping nor the files.
C13_SearchExact ==
    call.op = "buscar_nombre"
        => LET hits == {j \in 1..Len(productos) :
                           ContainsIgnoreCase(productos[j].val.nombre, call.args)}
           IN  /\ \A i \in 1..Len(resultado) :
                      \E j \in hits : productos[j].val = resultado[i]
               /\ \A j \in hits :
                      \E i \in 1..Len(resultado) : resultado[i] = productos[j].val
               /\ Len(resultado) = Cardinality(hits)
               /\ productos = pre.productos
               /\ archivo = pre.archivo
               /\ temp_file = pre.temp_file

\* C13 witness: of two Records, the one whose name matches only when case is
\* ignored is returned
C13_Witness ==
    /\ call.op = "buscar_nombre"
    /\ call.args = <<"a", "B">>
    /\ Len(productos) = 2
    /\ Len(resultado) = 1
    /\ resultado[1].nombre = <<"A", "b">>
    /\ Exists(archivo)

\* C14: in the json variant, whenever a step of guardar_inventario fails the
\* failure is raised to the caller of guardar_inventario and, when the cleanup
\* delete itself succeeds, no temporary file is left.
C14_FailedSaveRaisesAndCleans ==
    (variant = "json" /\ pc = "idle" /\ call.op \in Mutators /\ nfail > pre.nfail)
        => /\ guardar = "raised"
           /\ (nfail = pre.nfail + 1) => ~Exists(temp_file)

\* C14 witness: the rename failed, with the temporary file fully written
C14_Witness ==
    /\ variant = "json"
    /\ pc = "idle"
    /\ call.op \in Mutators
    /\ call.at = "json_rename"
    /\ nfail = pre.nfail + 1
    /\ guardar = "raised"
    /\ ~Exists(temp_file)

\* C15 (as stated; refuted): in the json variant, after guardar_inventario
\* finishes in any way, the destination exists if it existed before and holds
\* either its pre-save contents or the full new serialized mapping.
C15_DestinationOldOrNew ==
    (variant = "json" /\ pc = "idle" /\ call.op \in Mutators
       /\ guardar \in {"returned", "raised"})
        => /\ Exists(pre.archivo) => Exists(archivo)
           /\ archivo \in {pre.archivo, Serialize("json", productos)}

\* The change the current call made in memory is in productos
MutationKept ==
    CASE call.op = "agregar" ->
             /\ call.id \notin Keys(pre.productos)
             /\ call.id \in Keys(productos)
             /\ Get(productos, call.id) = call.args
      [] call.op = "eliminar" ->
             /\ call.id \in Keys(pre.productos)
             /\ call.id \notin Keys(productos)
      [] call.op = "actualizar" ->
             /\ call.id \in Keys(productos)
             /\ call.args.cantidad # <<>>
                    => Get(productos, call.id).cantidad = call.args.cantidad[1]
             /\ call.args.precio # <<>>
                    => Get(productos, call.id).precio = call.args.precio[1]
      [] OTHER -> FALSE

\* C16: in the json variant, when the save fails inside add, remove or update
\* the change stays in memory and the backing file does not receive it; the
\* file is brought up to date only by a mutating operation whose save
\* succeeds, after which it decodes to the in-memory mapping.
C16_DivergenceUntilSavedAgain ==
    (variant = "json" /\ pc = "idle" /\ call.op \in Mutators)
        => /\ guardar = "raised" => MutationKept
           /\ guardar # "returned" => archivo \in {pre.archivo, Absent}
           /\ guardar = "returned"
                  => (~Decoded.raised /\ Decoded.productos = productos)

\* C16 witness: memory was ahead of the file when the call began, after a
\* failed save, and this call's save succeeded
C16_Witness ==
    /\ variant = "json"
    /\ pc = "idle"
    /\ call.op \in Mutators
    /\ pre.nfail >= 1
    /\ Exists(pre.archivo)
    /\ pre.archivo # Serialize("json", pre.productos)
    /\ guardar = "returned"
    /\ archivo = Serialize("json", productos)

\* C17 (as stated; refuted): in both variants, add returns False if and only
\* if the id was already in the store, so that whenever add returns False the
\* in-memory mapping is as before the call.
C17_AddFalseIffDuplicate ==
    (pc = "idle" /\ call.op = "agregar")
        => /\ (ret = "False") <=> (call.id \in Keys(pre.productos))
           /\ (ret = "False") => (productos = pre.productos)

\* C18 (as stated; refuted): in the delimited variant, when loading meets a
\* malformed line, construction still completes and the store holds the
\* Records of the lines before it.
C18_MalformedLineKeepsPrefix ==
    (variant = "delimited" /\ call.op = "init" /\ call.args.readable
       /\ Exists(archivo) /\ LeerLineas(archivo.body, <<>>).raised)
        => /\ pc = "idle"
           /\ productos = LeerLineas(archivo.body, <<>>).productos

\* The backing file holds fewer lines than the mapping has Records, and they
\* are the first lines of its serialization
StrictPrefixWritten ==
    /\ archivo.kind = "text"
    /\ Len(archivo.body) < Len(productos)
    /\ archivo.body = SubSeq(Serialize("delimited", productos).body, 1, Len(archivo.body))

\* C19 (as stated; refuted): in the delimited variant, when the save fails
\* during add or update, the operation returns True, the in-memory mapping
\* carries the new Record and the backing file holds no line of that Record.
C19_FileLacksMutation ==
    (variant = "delimited" /\ pc = "idle" /\ call.op \in {"agregar", "actualizar"}
       /\ nfail > pre.nfail /\ productos # pre.productos)
        => /\ ret = "True"
           /\ MutationKept
           /\ \A i \in 1..Len(archivo.body) :
                  archivo.body[i] # Linea(Get(productos, call.id))

\* C19 (amended): in the delimited variant, when the save fails during add,
\* remove or update, no exception reaches the caller, the operation returns
\* True, the change stays in memory and the save has not completed: the file
\* is as before the call or holds only the first lines of the new mapping
\* (the changed Record's line can be among them), so a file that matched the
\* mapping before the call does not match the changed mapping.
C19_SwallowedSaveFailure ==
    (variant = "delimited" /\ pc = "idle" /\ call.op \in Mutators
       /\ nfail > pre.nfail)
        => /\ guardar = "swallowed"
           /\ ret = "True"
           /\ MutationKept
           /\ archivo = pre.archivo \/ StrictPrefixWritten
           /\ (pre.archivo = Serialize("delimited", pre.productos)
                 /\ productos # pre.productos)
                  => archivo # Serialize("delimited", productos)

\* C19 witness: the write of the second Record failed
C19_Witness ==
    /\ variant = "delimited"
    /\ pc = "idle"
    /\ call.op \in Mutators
    /\ call.at = "txt_write"
    /\ guardar = "swallowed"
    /\ ret = "True"
    /\ Len(archivo.body) = 1
    /\ Len(productos) = 2
    /\ archivo # pre.archivo

\* C20: in the delimited variant the save rewrites the destination in place:
\* a process killed during guardar_inventario leaves the file as it was (before
\* the open) or truncated and holding only the lines written so far.
C20_CrashLeavesPrefix ==
    (variant = "delimited" /\ pc = "crashed")
        => /\ call.at = "txt_open" => archivo = pre.archivo
           /\ call.at = "txt_write"
                  => /\ archivo.kind = "text"
                     /\ archivo.body
                          = SubSeq(Serialize("delimited", productos).body, 1, idx - 1)

\* C20 witness: a crash point at which the file holds a strict prefix of the
\* Records and decodes neither to the pre-save mapping nor to the new one
C20_Witness ==
    /\ variant = "delimited"
    /\ pc = "crashed"
    /\ call.at = "txt_write"
    /\ Len(archivo.body) < Len(productos)
    /\ ~Decoded.raised
    /\ AsMap(Decoded.productos) # AsMap(pre.productos)
    /\ AsMap(Decoded.productos) # AsMap(productos)

====
